---- MODULE Spec2Model ----
(***************************************************************************)
(* Model of the embedding subsystem of context-rag:                        *)
(*   python/embedder.py       ContextRagEmbedder (model-backed strategy    *)
(*                            with the persistent embedding cache)         *)
(*   python/fast_embedder.py  FastEmbedder (hash-based strategy)           *)
(* Texts are sequences of one-character strings.  Floating point values    *)
(* of the hash strategy are fixed-point integers (value * Scale).          *)
(***************************************************************************)
EXTENDS Integers, Sequences, FiniteSets, TLC

VARIABLES
    model_name,   \* ContextRagEmbedder.model_name of the running embedder
    cache,        \* cache_dir: cache key -> the file <key>.json
    word_cache,   \* FastEmbedder.word_cache: word -> memoized vector
    last          \* the last call: its arguments, the path it took, its result,
                  \* the caller's chunk list after it and what main() printed

vars == <<model_name, cache, word_cache, last>>

(***************************************************************************)
(* Bounds and input sets                                                   *)
(***************************************************************************)
MaxChunks == 2
MaxTexts == 2

T_empty == <<>>
T_bang == <<"!">>
T_aba == <<"a", " ", "b", " ", "a">>
T_aab == <<"a", " ", "a", " ", "b">>
T_B == <<"B">>

Texts == {T_empty, T_bang, T_aba, T_aab, T_B}
CachedTexts == {T_aba, T_B}

DefaultModel == "all-MiniLM-L6-v2"
ModelNames == {DefaultModel, "paraphrase-MiniLM-L3-v2"}

None == "None"
CustomKeys == {"k"}

SeqsUpTo(S, n) == UNION {[1..m -> S] : m \in 0..n}

(***************************************************************************)
(* hashlib.sha256(text.encode()).hexdigest(): the digests of the texts     *)
(***************************************************************************)
SHA256Hex(text) ==
    CASE text = T_empty -> "e3b0c44298fc1c149afbf4c8996fb92427ae41e4649b934ca495991b7852b855"
      [] text = T_bang  -> "bb7208bc9b5d7c04f1236a82a0093a5e33f40423d5ba8d4266f7092c3ba43b62"
      [] text = T_aba   -> "0ce9001962f489923407e34166ab1f1877706b9552b503ac42d7dc834f209c2e"
      [] text = T_aab   -> "311450daddafb12b6bb936fb0563a243614f5cccf2238925f7fa340961eece0e"
      [] text = T_B     -> "df7e70e5021544f4834bbee64a9e3789febc4be81470df629cad6ddb03320a5c"

CacheKeys == {SHA256Hex(t) : t \in CachedTexts} \cup CustomKeys

(***************************************************************************)
(* The external sentence-transformers model.  encode() is deterministic:   *)
(* one vector per (model, text), of the model's dimension.                 *)
(***************************************************************************)
ModelDim(m) == IF m = DefaultModel THEN 2 ELSE 3

ModelCode(m) == IF m = DefaultModel THEN 1 ELSE 2

TextCode(text) ==
    CASE text = T_empty -> 1
      [] text = T_bang  -> 2
      [] text = T_aba   -> 3
      [] text = T_aab   -> 4
      [] text = T_B     -> 5

Encode(m, text) == [i \in 1..ModelDim(m) |-> 100 * ModelCode(m) + 10 * TextCode(text) + i]

(***************************************************************************)
(* ContextRagEmbedder.generate_embeddings                                  *)
(*   fail: self.model.encode (or tolist) raises during this call           *)
(***************************************************************************)
\* as if the "if not texts" return were missing
GenerateEmbeddingsNoEmptyCheck(m, texts, fail) ==
    IF fail
    THEN [ret |-> <<>>, encode_calls |-> 1, encode_failed |-> TRUE]
    ELSE [ret |-> [i \in 1..Len(texts) |-> Encode(m, texts[i])],
          encode_calls |-> 1, encode_failed |-> FALSE]

GenerateEmbeddings(m, texts, fail) ==
    IF texts = <<>>
    THEN [ret |-> <<>>, encode_calls |-> 0, encode_failed |-> FALSE]
    ELSE IF fail
    THEN [ret |-> <<>>, encode_calls |-> 1, encode_failed |-> TRUE]
    ELSE [ret |-> [i \in 1..Len(texts) |-> Encode(m, texts[i])],
          encode_calls |-> 1, encode_failed |-> FALSE]

(***************************************************************************)
(* The cache file: JSON text as a sequence of tokens, one per member and   *)
(* one for the closing brace.  A write that fails after open(.., 'w') has  *)
(* truncated the file leaves a proper prefix of the text: the empty file,  *)
(* or the text up to some token.                                           *)
(***************************************************************************)
NoFile == [exists |-> FALSE, data |-> <<>>]

CloseBrace == <<"}", "">>

JsonDump(cache_data) ==
    << <<"model", cache_data.model>>,
       <<"text_hash", cache_data.text_hash>>,
       <<"embedding", cache_data.embedding>>,
       CloseBrace >>

\* json.load: the text parses iff it ends with the closing brace and holds
\* members before it; the value is the dict of its members.
JsonLoad(data) ==
    IF Len(data) >= 1 /\ data[Len(data)][1] = CloseBrace[1]
       /\ \A i \in 1..(Len(data) - 1) : data[i][1] # CloseBrace[1]
    THEN [ok |-> TRUE,
          value |-> [name \in {data[i][1] : i \in 1..(Len(data) - 1)} |->
                        LET i == CHOOSE j \in 1..(Len(data) - 1) : data[j][1] = name
                        IN data[i][2]]]
    ELSE [ok |-> FALSE, value |-> <<>>]

\* the outcomes drawn: written, not opened, left empty, left without its end
WriteOutcomes == {"ok", "open_failed", "cut0", "cut3"}

\* the write outcomes drawn where the cache is not what is examined
FewWriteOutcomes == {"ok", "cut0"}

CutLen(w) == CASE w = "cut0" -> 0 [] w = "cut3" -> 3

\* with open(cache_file, 'w') as f: json.dump(cache_data, f), under try/except
WriteCacheFile(old, cache_data, w) ==
    CASE w = "ok" -> [exists |-> TRUE, data |-> JsonDump(cache_data)]
      [] w = "open_failed" -> old
      [] OTHER -> [exists |-> TRUE, data |-> SubSeq(JsonDump(cache_data), 1, CutLen(w))]

\* The cache check of embed_with_cache: which way the lookup goes, and the
\* vector it returns on a hit.
\* as if the stored model name were not compared
CacheLookupNoIdentityCheck(file, m) ==
    IF ~file.exists THEN [path |-> "absent", embedding |-> <<>>]
    ELSE LET parsed == JsonLoad(file.data) IN
         IF ~parsed.ok THEN [path |-> "unparsable", embedding |-> <<>>]
         ELSE IF "embedding" \in DOMAIN parsed.value
              THEN [path |-> "hit", embedding |-> parsed.value["embedding"]]
              ELSE [path |-> "unparsable", embedding |-> <<>>]

\* as if a file that does not parse counted as a hit
CacheLookupTrustsTruncated(file, m) ==
    IF ~file.exists THEN [path |-> "absent", embedding |-> <<>>]
    ELSE LET parsed == JsonLoad(file.data) IN
         IF ~parsed.ok THEN [path |-> "hit", embedding |-> <<>>]
         ELSE IF "model" \in DOMAIN parsed.value /\ parsed.value["model"] = m
              THEN IF "embedding" \in DOMAIN parsed.value
                   THEN [path |-> "hit", embedding |-> parsed.value["embedding"]]
                   ELSE [path |-> "unparsable", embedding |-> <<>>]
              ELSE [path |-> "mismatch", embedding |-> <<>>]

CacheLookup(file, m) ==
    IF ~file.exists THEN [path |-> "absent", embedding |-> <<>>]
    ELSE LET parsed == JsonLoad(file.data) IN
         IF ~parsed.ok THEN [path |-> "unparsable", embedding |-> <<>>]
         ELSE IF "model" \in DOMAIN parsed.value /\ parsed.value["model"] = m
              THEN IF "embedding" \in DOMAIN parsed.value
                   THEN [path |-> "hit", embedding |-> parsed.value["embedding"]]
                   ELSE [path |-> "unparsable", embedding |-> <<>>]
              ELSE [path |-> "mismatch", embedding |-> <<>>]

\* cache_key defaults to the text's hash
EffectiveKey(text, cache_key) == IF cache_key = None THEN SHA256Hex(text) ELSE cache_key

(***************************************************************************)
(* ContextRagEmbedder.embed_with_cache                                     *)
(***************************************************************************)
EmbedWithCache(m, files, text, cache_key, fail, w) ==
    LET key == EffectiveKey(text, cache_key)
        look == CacheLookup(files[key], m)
        gen == GenerateEmbeddings(m, <<text>>, fail)
    IN  IF look.path = "hit"
        THEN [ret |-> look.embedding, raised |-> FALSE, files |-> files,
              path |-> "hit", encode_calls |-> 0, encode_failed |-> FALSE,
              write |-> "none", key |-> key]
        ELSE IF gen.ret = <<>>
        THEN \* generate_embeddings([text])[0] on the empty list: IndexError
             [ret |-> <<>>, raised |-> TRUE, files |-> files,
              path |-> look.path, encode_calls |-> gen.encode_calls,
              encode_failed |-> gen.encode_failed, write |-> "none", key |-> key]
        ELSE LET embedding == gen.ret[1]
                 cache_data == [model |-> m, text_hash |-> key, embedding |-> embedding]
             IN [ret |-> embedding, raised |-> FALSE,
                 files |-> [files EXCEPT ![key] = WriteCacheFile(@, cache_data, w)],
                 path |-> look.path, encode_calls |-> gen.encode_calls,
                 encode_failed |-> gen.encode_failed, write |-> w, key |-> key]

(***************************************************************************)
(* dict.copy() and item assignment on the heap of dict objects: a list of  *)
(* chunks is a list of references into the heap.                           *)
(***************************************************************************)
\* as if the chunk itself were used in place of chunk.copy()
DictCopyAlias(heap, ref) == [heap |-> heap, ref |-> ref]

DictCopy(heap, ref) == [heap |-> Append(heap, heap[ref]), ref |-> Len(heap) + 1]

Deref(heap, refs) == [i \in 1..Len(refs) |-> heap[refs[i]]]

Min(a, b) == IF a <= b THEN a ELSE b

\* as if the embedded chunk were built anew from the vector alone
SetItemOnly(heap, ref, k, v) == [heap EXCEPT ![ref] = [f \in {k} |-> v]]

SetItem(heap, ref, k, v) ==
    [heap EXCEPT ![ref] = [f \in (DOMAIN @) \cup {k} |-> IF f = k THEN v ELSE @[f]]]

\* zip(chunks_data, embeddings) stops at the shorter of the two
ZipLen(chunks, embeddings) == Min(Len(chunks), Len(embeddings))

\* the loop body of embed_chunks, for pairs i..n
RECURSIVE AttachEmbeddings(_, _, _, _, _)
AttachEmbeddings(heap, result, embeddings, i, n) ==
    IF i > n THEN [heap |-> heap, result |-> result]
    ELSE LET c == DictCopy(heap, i)
             h == SetItem(c.heap, c.ref, "embedding", embeddings[i])
         IN AttachEmbeddings(h, Append(result, c.ref), embeddings, i + 1, n)

(***************************************************************************)
(* ContextRagEmbedder.embed_chunks                                         *)
(***************************************************************************)
\* as if the loop indexed embeddings[i] for every chunk: IndexError when short
EmbedChunksIndexed(m, chunks, fail) ==
    IF \E i \in 1..Len(chunks) : "content" \notin DOMAIN chunks[i]
    THEN [ret |-> <<>>, raised |-> TRUE, chunks_data |-> chunks,
          encode_calls |-> 0, encode_failed |-> FALSE]
    ELSE LET texts == [i \in 1..Len(chunks) |-> chunks[i]["content"]]
             gen == GenerateEmbeddings(m, texts, fail)
             done == AttachEmbeddings(chunks, <<>>, gen.ret, 1, ZipLen(chunks, gen.ret))
         IN [ret |-> IF Len(gen.ret) < Len(chunks) THEN <<>> ELSE Deref(done.heap, done.result),
             raised |-> Len(gen.ret) < Len(chunks),
             chunks_data |-> SubSeq(done.heap, 1, Len(chunks)),
             encode_calls |-> gen.encode_calls, encode_failed |-> gen.encode_failed]

EmbedChunks(m, chunks, fail) ==
    IF \E i \in 1..Len(chunks) : "content" \notin DOMAIN chunks[i]
    THEN \* chunk['content']: KeyError
         [ret |-> <<>>, raised |-> TRUE, chunks_data |-> chunks,
          encode_calls |-> 0, encode_failed |-> FALSE]
    ELSE LET texts == [i \in 1..Len(chunks) |-> chunks[i]["content"]]
             gen == GenerateEmbeddings(m, texts, fail)
             done == AttachEmbeddings(chunks, <<>>, gen.ret, 1, ZipLen(chunks, gen.ret))
         IN [ret |-> Deref(done.heap, done.result), raised |-> FALSE,
             chunks_data |-> SubSeq(done.heap, 1, Len(chunks)),
             encode_calls |-> gen.encode_calls, encode_failed |-> gen.encode_failed]

\* main(): the result object printed for a chunk payload, exit status 1 when
\* embed_chunks raised
MainResult(m, r) ==
    IF r.raised THEN [exit |-> 1, model |-> m, chunks |-> <<>>, total_chunks |-> 0]
    ELSE [exit |-> 0, model |-> m, chunks |-> r.ret, total_chunks |-> Len(r.ret)]

(***************************************************************************)
(* FastEmbedder                                                            *)
(***************************************************************************)
vocab_size == 384

\* fixed-point unit for the floats of the hash strategy
Scale == 1000

WordChars == {"a", "b", "B", "_"}

Lower(c) == IF c = "B" THEN "b" ELSE c

\* re.findall(r'\b\w+\b', text.lower()): scan from position i; cur is the run
\* of word characters being read, acc the tokens found
RECURSIVE TokScan(_, _, _, _)
TokScan(s, i, cur, acc) ==
    IF i > Len(s) THEN (IF Len(cur) > 0 THEN Append(acc, cur) ELSE acc)
    ELSE IF s[i] \in WordChars
    THEN TokScan(s, i + 1, Append(cur, s[i]), acc)
    ELSE TokScan(s, i + 1, <<>>, IF Len(cur) > 0 THEN Append(acc, cur) ELSE acc)

tokenize(text) == TokScan([i \in 1..Len(text) |-> Lower(text[i])], 1, <<>>, <<>>)

\* hashlib.md5(word.encode()).hexdigest(): the digests of the words
MD5Hex(word) ==
    CASE word = <<"a">> ->
           <<"0","c","c","1","7","5","b","9","c","0","f","1","b","6","a","8",
             "3","1","c","3","9","9","e","2","6","9","7","7","2","6","6","1">>
      [] word = <<"b">> ->
           <<"9","2","e","b","5","f","f","e","e","6","a","e","2","f","e","c",
             "3","a","d","7","1","c","7","7","7","5","3","1","5","7","8","f">>
      [] word = <<"a", "b">> ->
           <<"1","8","7","e","f","4","4","3","6","1","2","2","d","1","c","c",
             "2","f","4","0","d","c","2","b","9","2","f","0","e","b","a","0">>

Words == {<<"a">>, <<"b">>}

HexDigit(c) ==
    CASE c = "0" -> 0 [] c = "1" -> 1 [] c = "2" -> 2 [] c = "3" -> 3
      [] c = "4" -> 4 [] c = "5" -> 5 [] c = "6" -> 6 [] c = "7" -> 7
      [] c = "8" -> 8 [] c = "9" -> 9 [] c = "a" -> 10 [] c = "b" -> 11
      [] c = "c" -> 12 [] c = "d" -> 13 [] c = "e" -> 14 [] c = "f" -> 15

\* A numpy array is held as its leading values followed by a run of zeros:
\* [values |-> <<x1, .., xn>>, pad |-> z] is the array x1, .., xn, 0, .., 0.
VecLen(v) == Len(v.values) + v.pad

At(v, k) == IF k <= Len(v.values) THEN v.values[k] ELSE 0

\* int(word_hash[i:i+2], 16) / 255.0 - 0.5 for i in range(0, min(len, 2*D), 2),
\* in units of 1/510
HashValues(word_hash) ==
    LET stop == Min(Len(word_hash), vocab_size * 2)
    IN [values |-> SubSeq([j \in 1..((stop + 1) \div 2) |->
                      2 * (16 * HexDigit(word_hash[2 * j - 1])
                           + HexDigit(word_hash[2 * j])) - 255],
                      1, (stop + 1) \div 2),
        pad |-> 0]

\* embedding[:D]
Truncate(embedding, D) ==
    IF Len(embedding.values) >= D
    THEN [values |-> SubSeq(embedding.values, 1, D), pad |-> 0]
    ELSE [values |-> embedding.values, pad |-> D - Len(embedding.values)]

\* np.pad(embedding, (0, D - len)) or embedding[:D]
\* as if the np.pad branch were missing
PadOrTruncateNoPad(embedding, D) ==
    IF VecLen(embedding) < D THEN embedding ELSE Truncate(embedding, D)

PadOrTruncate(embedding, D) ==
    IF VecLen(embedding) < D
    THEN [values |-> embedding.values, pad |-> embedding.pad + (D - VecLen(embedding))]
    ELSE Truncate(embedding, D)

\* the sum of x[i]^2 from i on
RECURSIVE SumSquares(_, _)
SumSquares(x, i) == IF i > Len(x) THEN 0 ELSE x[i] * x[i] + SumSquares(x, i + 1)

RECURSIVE SqrtSearch(_, _, _)
SqrtSearch(n, lo, hi) ==
    IF lo >= hi THEN lo
    ELSE LET mid == (lo + hi + 1) \div 2
         IN IF mid * mid <= n THEN SqrtSearch(n, mid, hi) ELSE SqrtSearch(n, lo, mid - 1)

\* np.linalg.norm, rounded down
Norm(v) == SqrtSearch(SumSquares(v.values, 1), 0, 46340)

\* embedding / norm, in units of 1/Scale
Divide(v, norm) ==
    [values |-> SubSeq([i \in 1..Len(v.values) |-> (v.values[i] * Scale) \div norm],
                       1, Len(v.values)),
     pad |-> v.pad]

\* if norm > 0: embedding = embedding / norm
NormalizeBy(v, norm) == IF norm > 0 THEN Divide(v, norm) ELSE v

Normalize(v) == NormalizeBy(v, Norm(v))

\* FastEmbedder.get_word_embedding: the vector and the memo table after it
GetWordEmbedding(wc, word) ==
    IF word \in DOMAIN wc
    THEN [ret |-> wc[word], word_cache |-> wc]
    ELSE LET embedding == Normalize(PadOrTruncate(HashValues(MD5Hex(word)), vocab_size))
         IN [ret |-> embedding,
             word_cache |-> [w \in (DOMAIN wc) \cup {word} |->
                               IF w = word THEN embedding ELSE wc[w]]]

\* Counter(tokens): the distinct tokens in order of first occurrence, and counts
RECURSIVE DistinctTokens(_, _, _)
DistinctTokens(tokens, i, acc) ==
    IF i > Len(tokens) THEN acc
    ELSE DistinctTokens(tokens, i + 1,
            IF \E j \in 1..Len(acc) : acc[j] = tokens[i] THEN acc ELSE Append(acc, tokens[i]))

Count(tokens, word) == Cardinality({i \in 1..Len(tokens) : tokens[i] = word})

\* text_embedding += word_emb * tf_weight, with tf_weight = count / total_words
AddWeighted(text_embedding, word_emb, count, total_words) ==
    LET n == Min(VecLen(text_embedding),
                 IF Len(text_embedding.values) >= Len(word_emb.values)
                 THEN Len(text_embedding.values) ELSE Len(word_emb.values))
    IN [values |-> SubSeq([k \in 1..n |->
                      At(text_embedding, k) + (At(word_emb, k) * count) \div total_words],
                      1, n),
        pad |-> VecLen(text_embedding) - n]

\* the loop of embed_text over word_counts.items(), from the i-th distinct word
RECURSIVE Accumulate(_, _, _, _, _)
Accumulate(wc, words, tokens, i, text_embedding) ==
    IF i > Len(words) THEN [ret |-> text_embedding, word_cache |-> wc]
    ELSE LET g == GetWordEmbedding(wc, words[i])
             count == Count(tokens, words[i])
             total_words == Len(tokens)
         IN Accumulate(g.word_cache, words, tokens, i + 1,
               AddWeighted(text_embedding, g.ret, count, total_words))

\* [0.0] * n, np.zeros(n)
Zeros(n) == [values |-> <<>>, pad |-> n]

\* FastEmbedder.embed_text: the vector and the memo table after it
EmbedText(wc, text) ==
    LET tokens == tokenize(text)
    IN IF Len(tokens) = 0
       THEN [ret |-> Zeros(vocab_size), word_cache |-> wc]
       ELSE LET acc == Accumulate(wc, DistinctTokens(tokens, 1, <<>>), tokens, 1,
                                  Zeros(vocab_size))
            IN [ret |-> Normalize(acc.ret), word_cache |-> acc.word_cache]

\* FastEmbedder.embed_chunks: the loop from chunk i of n; heap[1..n] is the input
RECURSIVE FastEmbedLoop(_, _, _, _, _)
FastEmbedLoop(wc, heap, result, i, n) ==
    IF i > n THEN [heap |-> heap, result |-> result, word_cache |-> wc]
    ELSE LET content == IF "content" \in DOMAIN heap[i] THEN heap[i]["content"] ELSE T_empty
             e == EmbedText(wc, content)
             c == DictCopy(heap, i)
             h == SetItem(c.heap, c.ref, "embedding", e.ret)
         IN FastEmbedLoop(e.word_cache, h, Append(result, c.ref), i + 1, n)

FastEmbedChunks(wc, chunks) ==
    LET done == FastEmbedLoop(wc, chunks, <<>>, 1, Len(chunks))
    IN [ret |-> Deref(done.heap, done.result), word_cache |-> done.word_cache,
        chunks_data |-> SubSeq(done.heap, 1, Len(chunks))]

(***************************************************************************)
(* State machine                                                           *)
(***************************************************************************)
FastModel == "fast-embedder"

\* a vector left on a chunk by an earlier embedding run
OldEmbedding == [values |-> <<7, 7>>, pad |-> 0]

ChunkRecords ==
    {[content |-> T_aba, id |-> 1],
     [content |-> T_B, embedding |-> OldEmbedding],
     [content |-> T_empty]}

ChunkLists == SeqsUpTo(ChunkRecords, MaxChunks)

NoOutput == [exit |-> 0, model |-> "", chunks |-> <<>>, total_chunks |-> 0]

NoCall ==
    [op |-> "none", model |-> "", text |-> <<>>, cache_key |-> None, args |-> <<>>,
     ret |-> <<>>, raised |-> FALSE, encode_calls |-> 0, encode_failed |-> FALSE,
     path |-> "none", write |-> "none", key |-> "",
     chunks_data |-> <<>>, output |-> NoOutput]

Init ==
    /\ model_name = DefaultModel
    /\ cache = [k \in CacheKeys |-> NoFile]
    /\ word_cache = <<>>
    /\ last = NoCall

\* a new process: ContextRagEmbedder(model_name, cache_dir); the cache
\* directory and its files stay
ContextRagEmbedder_init(m) ==
    /\ model_name' = m
    /\ UNCHANGED <<cache, word_cache, last>>

\* a new process: FastEmbedder()
FastEmbedder_init ==
    /\ word_cache' = <<>>
    /\ UNCHANGED <<model_name, cache, last>>

generate_embeddings(texts, fail) ==
    \E r \in {GenerateEmbeddings(model_name, texts, fail)} :
       /\ last' = [NoCall EXCEPT !.op = "generate_embeddings", !.model = model_name,
                                 !.args = texts, !.ret = r.ret,
                                 !.encode_calls = r.encode_calls,
                                 !.encode_failed = r.encode_failed]
       /\ UNCHANGED <<model_name, cache, word_cache>>

embed_with_cache(text, cache_key, fail, w) ==
    \E r \in {EmbedWithCache(model_name, cache, text, cache_key, fail, w)} :
       /\ cache' = r.files
       /\ last' = [NoCall EXCEPT !.op = "embed_with_cache", !.model = model_name,
                                 !.text = text, !.cache_key = cache_key,
                                 !.ret = r.ret, !.raised = r.raised,
                                 !.encode_calls = r.encode_calls,
                                 !.encode_failed = r.encode_failed,
                                 !.path = r.path, !.write = r.write, !.key = r.key]
       /\ UNCHANGED <<model_name, word_cache>>

embed_chunks(chunks, fail) ==
    \E r \in {EmbedChunks(model_name, chunks, fail)} :
       /\ last' = [NoCall EXCEPT !.op = "embed_chunks", !.model = model_name,
                                 !.args = chunks, !.ret = r.ret, !.raised = r.raised,
                                 !.encode_calls = r.encode_calls,
                                 !.encode_failed = r.encode_failed,
                                 !.chunks_data = r.chunks_data]
       /\ UNCHANGED <<model_name, cache, word_cache>>

\* main() of embedder.py on a chunk payload
main_chunks(chunks, fail) ==
    \E r \in {EmbedChunks(model_name, chunks, fail)} :
       /\ last' = [NoCall EXCEPT !.op = "main_chunks", !.model = model_name,
                                 !.args = chunks, !.ret = r.ret, !.raised = r.raised,
                                 !.encode_calls = r.encode_calls,
                                 !.encode_failed = r.encode_failed,
                                 !.chunks_data = r.chunks_data,
                                 !.output = MainResult(model_name, r)]
       /\ UNCHANGED <<model_name, cache, word_cache>>

get_word_embedding(word) ==
    \E r \in {GetWordEmbedding(word_cache, word)} :
       /\ word_cache' = r.word_cache
       /\ last' = [NoCall EXCEPT !.op = "get_word_embedding", !.model = FastModel,
                                 !.text = word, !.ret = r.ret]
       /\ UNCHANGED <<model_name, cache>>

embed_text(text) ==
    \E r \in {EmbedText(word_cache, text)} :
       /\ word_cache' = r.word_cache
       /\ last' = [NoCall EXCEPT !.op = "embed_text", !.model = FastModel,
                                 !.text = text, !.ret = r.ret]
       /\ UNCHANGED <<model_name, cache>>

fast_embed_chunks(chunks) ==
    \E r \in {FastEmbedChunks(word_cache, chunks)} :
       /\ word_cache' = r.word_cache
       /\ last' = [NoCall EXCEPT !.op = "fast_embed_chunks", !.model = FastModel,
                                 !.args = chunks, !.ret = r.ret,
                                 !.chunks_data = r.chunks_data]
       /\ UNCHANGED <<model_name, cache>>

Bool == {TRUE, FALSE}

Restart == \E m \in ModelNames : ContextRagEmbedder_init(m)

Batch == \E texts \in SeqsUpTo(CachedTexts, MaxTexts), fail \in Bool :
            generate_embeddings(texts, fail)

\* embed_with_cache on one text under its default key
CachedOne == \E fail \in Bool, w \in FewWriteOutcomes : embed_with_cache(T_aba, None, fail, w)

\* embed_with_cache over every key and write outcome
CachedAny == \E text \in CachedTexts, cache_key \in {None} \cup CustomKeys,
                fail \in Bool, w \in WriteOutcomes :
                embed_with_cache(text, cache_key, fail, w)

Chunks == \E chunks \in ChunkLists, fail \in Bool : embed_chunks(chunks, fail)

Main == \E chunks \in ChunkLists, fail \in Bool : main_chunks(chunks, fail)

Word == \E word \in Words : get_word_embedding(word)

Text == \E text \in Texts : embed_text(text)

FastChunks == \E chunks \in ChunkLists : fast_embed_chunks(chunks)

Next ==
    \/ Restart
    \/ FastEmbedder_init
    \/ Batch
    \/ CachedOne
    \/ Chunks
    \/ Main
    \/ Word
    \/ Text
    \/ FastChunks

Spec == Init /\ [][Next]_vars

\* the model-backed embedder and its cache, over every key and write outcome
CacheNext == Restart \/ CachedAny

SpecCache == Init /\ [][CacheNext]_vars

\* the model-backed embedder: batch calls, chunk payloads and main()
BatchNext == Restart \/ Batch \/ CachedOne \/ Chunks \/ Main

SpecBatch == Init /\ [][BatchNext]_vars

\* both strategies embedding chunk lists, beside a cache in use
ChunkNext == Restart \/ FastEmbedder_init \/ CachedOne \/ Chunks \/ FastChunks

SpecChunks == Init /\ [][ChunkNext]_vars

\* every operation that hands out a vector, of both strategies
VectorNext ==
    Restart \/ FastEmbedder_init \/ Batch \/ CachedOne \/ Word \/ Text \/ FastChunks

SpecVectors == Init /\ [][VectorNext]_vars

(***************************************************************************)
(* Properties                                                              *)
(***************************************************************************)
ChunkOps == {"embed_chunks", "main_chunks", "fast_embed_chunks"}

\* the file is a complete entry, as one successful write leaves it
CompleteEntry(file) ==
    /\ file.exists
    /\ JsonLoad(file.data).ok
    /\ DOMAIN JsonLoad(file.data).value = {"model", "text_hash", "embedding"}

StoredModel(file) == JsonLoad(file.data).value["model"]

StoredEmbedding(file) == JsonLoad(file.data).value["embedding"]

\* the vector a strategy owes for a text: the model's, or the hash strategy's
\* computed without any memo table
VectorOf(strategy, text) ==
    IF strategy = FastModel THEN EmbedText(<<>>, text).ret ELSE Encode(strategy, text)

\* chunk with its embedding field set to v
WithEmbedding(chunk, v) ==
    [f \in (DOMAIN chunk) \cup {"embedding"} |-> IF f = "embedding" THEN v ELSE chunk[f]]

\* C1: an embed_with_cache call on a key holding a complete entry of the
\* same identity returns the stored vector without calling the model, and a
\* call right after a successful store under the same key and identity
\* returns what that store returned; on an entry of another identity the
\* call is a miss: the model is called and the stored vector is not returned.
C1_CacheRoundTrip ==
    [][(last'.op = "embed_with_cache" /\ model_name' = model_name) =>
         LET file == cache[last'.key] IN
         /\ (CompleteEntry(file) /\ StoredModel(file) = last'.model) =>
               /\ ~last'.raised
               /\ last'.ret = StoredEmbedding(file)
               /\ last'.encode_calls = 0
         /\ (CompleteEntry(file) /\ StoredModel(file) # last'.model) =>
               /\ last'.path = "mismatch"
               /\ last'.encode_calls = 1
               /\ ~last'.raised =>
                     /\ last'.ret = Encode(last'.model, last'.text)
                     /\ last'.ret # StoredEmbedding(file)
         /\ (last.op = "embed_with_cache" /\ last.write = "ok" /\ last.key = last'.key) =>
               IF last'.model = last.model
               THEN ~last'.raised /\ last'.ret = last.ret /\ last'.encode_calls = 0
               ELSE last'.encode_calls = 1 /\ (~last'.raised => last'.ret # last.ret)
    ]_vars

C1_Witness ==
    /\ last.op = "embed_with_cache"
    /\ last.path = "hit"
    /\ last.cache_key \in CustomKeys

\* C2: two successive embed_with_cache calls of one identity on the same
\* text, with or without a caller-supplied key, return the same vector.
C2_Determinism ==
    [][(/\ last.op = "embed_with_cache" /\ last'.op = "embed_with_cache"
        /\ ~last.raised /\ ~last'.raised
        /\ last.model = last'.model /\ last.text = last'.text)
       => last'.ret = last.ret]_vars

\* C3: a call during which the model's inference failed does not raise, and
\* generate_embeddings then returns the empty sequence.
C3_NoHardFault ==
    last.encode_failed =>
        /\ ~last.raised
        /\ last.op = "generate_embeddings" => last.ret = <<>>

\* C4 as stated: N records in input order, each keeping every field other
\* than content at its input value and holding the vector of its content.
C4_AllNonContentFieldsKept ==
    (last.op \in ChunkOps /\ ~last.raised /\ ~last.encode_failed) =>
        /\ Len(last.ret) = Len(last.args)
        /\ \A i \in 1..Len(last.args) :
              /\ DOMAIN last.ret[i] = (DOMAIN last.args[i]) \cup {"embedding"}
              /\ \A f \in (DOMAIN last.args[i]) \ {"content"} :
                    last.ret[i][f] = last.args[i][f]
              /\ last.ret[i]["embedding"] = VectorOf(last.model, last.args[i]["content"])

\* C4 amended: N records in input order, each keeping every field other than
\* embedding (content included) at its input value, its embedding field
\* holding the vector of its content in place of any the chunk came with.
C4_OrderAndFields ==
    (last.op \in ChunkOps /\ ~last.raised /\ ~last.encode_failed) =>
        /\ Len(last.ret) = Len(last.args)
        /\ \A i \in 1..Len(last.args) :
              /\ DOMAIN last.ret[i] = (DOMAIN last.args[i]) \cup {"embedding"}
              /\ \A f \in (DOMAIN last.args[i]) \ {"embedding"} :
                    last.ret[i][f] = last.args[i][f]
              /\ last.ret[i]["embedding"] = VectorOf(last.model, last.args[i]["content"])

C4_Witness ==
    /\ last.op \in ChunkOps
    /\ ~last.encode_failed
    /\ Len(last.args) = 2
    /\ last.args[1] # last.args[2]
    /\ "embedding" \in DOMAIN last.args[1]
    /\ "id" \in DOMAIN last.args[2]

\* C5: ContextRagEmbedder.embed_chunks on N chunks whose batch call returned
\* M vectors (0 when inference failed, else N) returns without raising
\* exactly M records, record i being chunk i with vector i as its embedding;
\* main() then reports total_chunks = M.
C5_ShortBatch ==
    (last.op \in {"embed_chunks", "main_chunks"}) =>
        LET M == IF last.encode_failed THEN 0 ELSE Len(last.args) IN
        /\ ~last.raised
        /\ Len(last.ret) = M
        /\ \A i \in 1..M :
              last.ret[i] = WithEmbedding(last.args[i],
                                          Encode(last.model, last.args[i]["content"]))
        /\ last.op = "main_chunks" =>
              /\ last.output.exit = 0
              /\ last.output.total_chunks = M
              /\ last.output.chunks = last.ret

C5_Witness ==
    /\ last.op = "main_chunks"
    /\ last.encode_failed
    /\ Len(last.args) = 2
    /\ last.output.total_chunks = 0

\* C6: every cache file that exists is a complete entry (model, text_hash,
\* embedding) under its own key.
C6_EntryIntegrity ==
    \A k \in CacheKeys :
        cache[k].exists =>
            /\ CompleteEntry(cache[k])
            /\ JsonLoad(cache[k].data).value["text_hash"] = k
            /\ StoredModel(cache[k]) \in ModelNames

\* C7: an embed_with_cache call that finds an unparsable file for its key,
\* or whose cache write fails, returns the freshly computed vector of its
\* text and raises nothing, provided inference did not fail.
C7_CacheFaultsIgnored ==
    [][(last'.op = "embed_with_cache" /\ model_name' = model_name
        /\ ~last'.encode_failed
        /\ \/ cache[last'.key].exists /\ ~CompleteEntry(cache[last'.key])
           \/ last'.write \notin {"ok", "none"})
       => /\ ~last'.raised
          /\ last'.encode_calls = 1
          /\ last'.ret = Encode(last'.model, last'.text)]_vars

C7_Witness ==
    /\ last.op = "embed_with_cache"
    /\ last.path = "unparsable"
    /\ last.write = "cut3"
    /\ ~last.raised

\* C8: generate_embeddings on the empty list returns the empty sequence
\* without a call of the model, and so does embed_chunks on zero chunks.
C8_EmptyBatch ==
    /\ (last.op = "generate_embeddings" /\ last.args = <<>>) =>
          last.ret = <<>> /\ last.encode_calls = 0
    /\ (last.op \in {"embed_chunks", "main_chunks"} /\ last.args = <<>>) =>
          last.ret = <<>> /\ last.encode_calls = 0 /\ ~last.raised

C8_Witness == last.op = "generate_embeddings" /\ last.args = <<>>

\* C9: every vector handed out has its strategy's dimension: vocab_size for
\* the hash strategy (texts without tokens and memoized word vectors
\* included), the model's dimension for the model strategy.
C9_DimensionInvariance ==
    /\ \A w \in DOMAIN word_cache : VecLen(word_cache[w]) = vocab_size
    /\ last.op \in {"get_word_embedding", "embed_text"} => VecLen(last.ret) = vocab_size
    /\ last.op = "fast_embed_chunks" =>
          \A i \in 1..Len(last.ret) : VecLen(last.ret[i]["embedding"]) = vocab_size
    /\ (last.op = "embed_with_cache" /\ ~last.raised) =>
          Len(last.ret) = ModelDim(last.model)
    /\ last.op = "generate_embeddings" =>
          \A i \in 1..Len(last.ret) : Len(last.ret[i]) = ModelDim(last.model)

C9_Witness ==
    /\ last.op = "embed_text"
    /\ last.text = T_bang
    /\ DOMAIN word_cache = Words

\* C10: embed_chunks of either strategy leaves the caller's chunk list as it
\* was passed and leaves every cache file as it was.
C10_Frame ==
    [][last'.op \in ChunkOps =>
          /\ last'.chunks_data = last'.args
          /\ cache' = cache]_vars

C10_Witness ==
    /\ last.op = "embed_chunks"
    /\ Len(last.ret) = 2
    /\ "embedding" \in DOMAIN last.args[1]
    /\ \E k \in CacheKeys : CompleteEntry(cache[k])

====
